---- MODULE Spec2Model ----
(***************************************************************************)
(* Temporal-geographic linkage engine of linkdata:                         *)
(*   - ResidentialHistoryHRS: move-history index and date lookup           *)
(*   - HRSContextLinker: lag columns and the per-lag merge                 *)
(*   - process_single_lag / process_multiple_lags_batch / _parallel        *)
(*   - run_pipeline: assembly of the per-lag tables                        *)
(*                                                                         *)
(* Dates are day numbers on a scaled calendar (MonthsPerYear months a      *)
(* year, one day a month); NaT is the null date.  Text values are          *)
(* sequences of one-character strings.  None (unknown area code) is the    *)
(* empty text, NA the null integer.                                        *)
(***************************************************************************)
EXTENDS Integers, Sequences, FiniteSets, TLC

\* ------------------------------------------------------------------ bounds
\* most move records in one residential-history file
MaxRows == 2
\* most lags of one run: n_days = range(n_lags), n_lags <= MaxLags
MaxLags == 2
\* threads using the contextual store at once, and accesses of each thread
MaxThreads == 2
MaxAccesses == 2

\* most characters of an area code that arrives as text
MaxGeoidChars == 12

\* --------------------------------------------------------------- constants
GeoidWidth == 11

NA == -1
NaT == -999
None == << >>

\* the scaled calendar: two years of two months, a month being one day long
Years == {0, 1}
Months == {1, 2}
MonthsPerYear == Cardinality(Months)
PIDs == {1, 2}
Dates == 0..(Cardinality(Years) * MonthsPerYear - 1)

\* a set of years in ascending order
RECURSIVE SortedYears(_)
SortedYears(S) ==
    IF S = {} THEN << >>
    ELSE LET lo == CHOOSE x \in S : \A y \in S : x <= y
         IN <<lo>> \o SortedYears(S \ {lo})

VARIABLES
    df,            \* ResidentialHistoryHRS.df: the move records, in file order
    move_info,     \* the dictionary pid -> <<dates, geoids>> built by _parse_move_info
    parse_state,   \* "new", "parsed", or "raised" (a move row without year/month)
    debug_raised,  \* TRUE once the diagnostic call at the end of _parse_move_info raised
    q_pid, q_dt,   \* last lookup: respondent id and query date
    q_geoid,       \* last lookup: returned area code (None when unknown)
    hrs_df,        \* HRSInterviewData.df: the base respondent table
    move,          \* HRSInterviewData.move: TRUE = dynamic mode (residential history)
    n_days,        \* the list of lags of the run
    include_lag_date,
    strategy,      \* "sequential", "batch" or "parallel"
    bad_lags,      \* lags whose merge raises (malformed contextual data)
    files,         \* the contextual store on disk: year -> rows of the year's file
    geoid_filter,  \* DailyMeasureDataDir.geoid_filter
    data,          \* DailyMeasureDataDir.data: year -> cached table, if loaded
    loads,         \* year -> number of times the year's file was read
    hrs_with_lags, \* the precomputed lag-column table (batch, parallel)
    contextual_df, \* the concatenated filtered contextual table (batch, parallel)
    futures,       \* parallel: task (position in n_days) -> state and result
    temp_dir,      \* scratch directory: lag -> table written for the lag
    temp_files,    \* the list of result paths (a path is named by its lag)
    pc,            \* position of the run
    error,         \* the exception that ended the run, "none" while there is none
    lag_ix,        \* loop index into n_days
    final_df,      \* the assembled table
    raw_df,        \* the residential-history file as read, ids not yet converted
    raw_pid,       \* last lookup: the respondent id as supplied
    raw_geoid,     \* an area-code value as it arrives (number or text)
    site,          \* the place that normalized it: "index", "static" or "store"
    norm_geoid,    \* the normalized area code
    again,         \* TRUE once the normalized text was normalized a second time
    bad_writes,    \* lags whose file cannot be written (directory, file format)
    write_errors,  \* lags whose write raised
    task_writes,   \* parallel: <<task, path>> for every file a worker task wrote
    thr            \* threads using the store: thread -> position and year

idx_vars == <<df, move_info, parse_state, debug_raised, q_pid, q_dt, q_geoid>>
run_vars == <<hrs_df, move, n_days, include_lag_date, strategy, bad_lags, files,
              geoid_filter, data, loads, hrs_with_lags, contextual_df, futures,
              temp_dir, temp_files, pc, error, lag_ix, final_df>>
in_vars == <<raw_df, raw_pid, raw_geoid, site, norm_geoid, again>>
env_vars == <<bad_writes, write_errors, task_writes, thr>>
vars == <<idx_vars, run_vars, in_vars, env_vars>>

\* ------------------------------------------------------------ text helpers
DigitChar(d) == <<"0", "1", "2", "3", "4", "5", "6", "7", "8", "9">>[d + 1]

RECURSIVE IntStr(_)
IntStr(n) == IF n < 10 THEN <<DigitChar(n)>>
             ELSE IntStr(n \div 10) \o <<DigitChar(n % 10)>>

\* str(x) of a raw cell value: text as is, integer as digits, float with ".0"
PyStr(v) == CASE v.t = "str"   -> v.s
              [] v.t = "int"   -> IntStr(v.n)
              [] v.t = "float" -> IntStr(v.n) \o <<".", "0">>

RECURSIVE PadZeros(_, _)
PadZeros(s, w) == IF Len(s) >= w THEN s ELSE PadZeros(<<"0">> \o s, w)

\* zfill that puts one zero in front before it pads to the width
zfill_prefix(s, w) == PadZeros(<<"0">> \o s, w)

\* str.zfill: pads on the left, after a leading sign; never truncates
zfill(s, w) ==
    IF Len(s) > 0 /\ s[1] \in {"+", "-"}
    THEN <<s[1]>> \o PadZeros(Tail(s), w - 1)
    ELSE PadZeros(s, w)

\* pandas Timestamp comparisons: any comparison with NaT is False
DateLT(a, b) == a # NaT /\ b # NaT /\ a < b
DateGT(a, b) == a # NaT /\ b # NaT /\ a > b

\* pd.to_datetime(f"{year}-{month}-01")
to_datetime(y, m) == y * MonthsPerYear + (m - 1)

\* ------------------------------------------------- ResidentialHistoryHRS
first_tract_mark == "999.0"
moved_mark == "1. move"
SurveyYear == 1

\* (mvyear, mvmonth) cells of a move record: both null, month null, or both set
DateCells == {<<NA, NA>>} \cup {<<y, NA>> : y \in Years} \cup (Years \X Months)

\* the area code cell of the i-th record of the file
RowGeoid(i) == [t |-> "int", n |-> i]

RowsAt(i) ==
    { [hhidpn |-> p, movecol |-> mc, mvyear |-> c[1], mvmonth |-> c[2],
       year |-> SurveyYear, geoid |-> RowGeoid(i)] :
        p \in PIDs, mc \in {first_tract_mark, moved_mark}, c \in DateCells }

RECURSIVE Tables(_)
Tables(n) == IF n = 0 THEN {<< >>}
             ELSE LET shorter == Tables(n - 1)
                  IN  shorter \cup
                      { Append(t, r) : t \in {s \in shorter : Len(s) = n - 1},
                                       r \in RowsAt(n) }

RECURSIVE Filter(_, _)
Filter(rows, keep) ==
    IF rows = << >> THEN << >>
    ELSE IF keep[rows[1]] THEN <<rows[1]>> \o Filter(Tail(rows), keep)
         ELSE Filter(Tail(rows), keep)

\* df.groupby(hhidpn): one group per id, rows in file order
df_person(rows, pid) == Filter(rows, [r \in {rows[i] : i \in DOMAIN rows} |-> r.hhidpn = pid])

first_rows(person) ==
    Filter(person, [r \in {person[i] : i \in DOMAIN person} |-> r.movecol = first_tract_mark])

moved_rows(person) ==
    Filter(person, [r \in {person[i] : i \in DOMAIN person} |-> r.movecol = moved_mark])

start_dt(first) ==
    IF first.mvyear # NA
    THEN to_datetime(first.mvyear, IF first.mvmonth = NA THEN 1 ELSE first.mvmonth)
    ELSE to_datetime(first.year, 1)

\* the (dates, geoids) pair stored for one respondent: the first-residence
\* entry, then one entry per move row in file order
person_entry(person) ==
    LET first == first_rows(person)[1]
        mv    == moved_rows(person)
    IN <<  <<start_dt(first)>> \o [i \in 1..Len(mv) |-> to_datetime(mv[i].mvyear, mv[i].mvmonth)],
           <<zfill(PyStr(first.geoid), GeoidWidth)>> \o
               [i \in 1..Len(mv) |-> zfill(PyStr(mv[i].geoid), GeoidWidth)] >>

\* respondents that get an entry: those with a first-residence marker
IndexedPids(rows) ==
    { p \in {rows[i].hhidpn : i \in DOMAIN rows} : first_rows(df_person(rows, p)) # << >> }

\* int(row[mvyear]) / int(row[mvmonth]) of a null cell raises
ParseRaises(rows) ==
    \E p \in IndexedPids(rows) :
        \E i \in DOMAIN moved_rows(df_person(rows, p)) :
            LET r == moved_rows(df_person(rows, p))[i]
            IN r.mvyear = NA \/ r.mvmonth = NA

MoveInfoOf(rows) == [p \in IndexedPids(rows) |-> person_entry(df_person(rows, p))]

\* debug_move_info(self, n_samples) is called as
\* self.debug_move_info(move_info, n_samples=100): two values for n_samples
DebugCallRaises == TRUE

_parse_move_info ==
    /\ parse_state = "new"
    /\ IF ParseRaises(df)
       THEN /\ parse_state' = "raised"
            /\ UNCHANGED <<move_info, debug_raised>>
       ELSE /\ parse_state' = "parsed"
            /\ move_info' = MoveInfoOf(df)
            /\ debug_raised' = DebugCallRaises
    /\ UNCHANGED <<df, q_pid, q_dt, q_geoid, run_vars, in_vars, env_vars>>

\* FirstLater with "move_dt >= dt" for "move_dt > dt"
RECURSIVE FirstLater_ge(_, _, _)
FirstLater_ge(dt, move_dates, i) ==
    IF i > Len(move_dates) THEN 0
    ELSE IF DateGT(move_dates[i], dt) \/ move_dates[i] = dt THEN i
         ELSE FirstLater_ge(dt, move_dates, i + 1)

\* the index of the first move date later than dt, 0 when there is none
RECURSIVE FirstLater(_, _, _)
FirstLater(dt, move_dates, i) ==
    IF i > Len(move_dates) THEN 0
    ELSE IF DateGT(move_dates[i], dt) THEN i
         ELSE FirstLater(dt, move_dates, i + 1)

\* Python's seq[k] for k = -1 is the last element
PyIndex(seq, k) == IF k = 0 THEN seq[Len(seq)] ELSE seq[k]

\* _find_geoid_for_date with "dt <= move_dates[0]" for "dt < move_dates[0]"
_find_geoid_for_date_le(dt, move_dates, move_geoids) ==
    IF DateLT(dt, move_dates[1]) \/ dt = move_dates[1] THEN None
    ELSE IF Len(move_dates) = 1 THEN move_geoids[1]
    ELSE LET i == FirstLater(dt, move_dates, 1)
         IN IF i # 0 THEN PyIndex(move_geoids, i - 1)
            ELSE move_geoids[Len(move_geoids)]

_find_geoid_for_date(dt, move_dates, move_geoids) ==
    IF DateLT(dt, move_dates[1]) THEN None
    ELSE IF Len(move_dates) = 1 THEN move_geoids[1]
    ELSE LET i == FirstLater(dt, move_dates, 1)
         IN IF i # 0 THEN PyIndex(move_geoids, i - 1)
            ELSE move_geoids[Len(move_geoids)]

\* geoid_based_on_date without the null / absent id guards of lines 207-214:
\* the missing value is formatted like an area code
geoid_based_on_date_unguarded(info, pid, dt) ==
    IF pid = NA \/ pid \notin DOMAIN info THEN zfill(<<"n", "a", "n">>, GeoidWidth)
    ELSE _find_geoid_for_date(dt, info[pid][1], info[pid][2])

\* one element of create_geoid_based_on_date
geoid_based_on_date(info, pid, dt) ==
    IF pid = NA THEN None
    ELSE IF pid \notin DOMAIN info THEN None
    ELSE _find_geoid_for_date(dt, info[pid][1], info[pid][2])

create_geoid_based_on_date(pid, dt) ==
    /\ parse_state = "parsed"
    /\ q_pid' = pid
    /\ q_dt' = dt
    /\ q_geoid' = geoid_based_on_date(move_info, pid, dt)
    /\ UNCHANGED <<df, move_info, parse_state, debug_raised, run_vars, in_vars, env_vars>>

\* ------------------------------------------------------------------ tables
\* A table is [cols |-> sequence of column names, rows |-> sequence of rows];
\* a row maps each column name to its cell.  Column names are tuples.
ID == <<"hhidpn">>
DATECOL == <<"bcdate">>
GEOCOL == <<"LINKCEN">>
\* the area-code column of calendar year y in a table that carries one column a
\* year: geoid_col names the column of the survey year; the names of the other
\* years' columns do not contain it
GeoYear(y) == IF y = SurveyYear THEN GEOCOL ELSE <<"LINKCEN_year", y>>
OtherYears == Years \ {SurveyYear}
OtherYearCols == [k \in 1..Cardinality(OtherYears) |-> GeoYear(SortedYears(OtherYears)[k])]
LagDate(n) == <<"bcdate", n, "day_prior">>
LagGeoid(n) == <<"LINKCEN", n, "day_prior">>
LagVal(n) == <<"HeatIndex", "bcdate", n, "day_prior">>
CtxDate == <<"Date">>
CtxGeoid == <<"GEOID10">>
CtxData == <<"HeatIndex">>

Range(seq) == {seq[k] : k \in DOMAIN seq}

\* the null cell of a column: NaT for dates, None for area codes, NA otherwise
NullOf(c) ==
    IF c = DATECOL \/ c = CtxDate \/ (Len(c) = 3 /\ c[1] = "bcdate") THEN NaT
    ELSE IF c[1] = "LINKCEN" \/ c = CtxGeoid THEN None
    ELSE NA

\* df[cols]
Project(t, cols) ==
    [cols |-> cols,
     rows |-> [k \in DOMAIN t.rows |-> [c \in Range(cols) |-> t.rows[k][c]]]]

RECURSIVE Flatten(_)
Flatten(ss) == IF ss = << >> THEN << >> ELSE ss[1] \o Flatten(Tail(ss))

\* pd.merge(left, right, how="left", left_on=lkeys, right_on=rkeys): the left
\* rows in order, each once per matching right row (in the right's order), or
\* once with null right cells when nothing matches; null keys match each other
LeftJoin(left, right, lkeys, rkeys) ==
    LET extra == Filter(right.cols, [c \in Range(right.cols) |-> c \notin Range(left.cols)])
        Match(l, r) == \A k \in DOMAIN lkeys : l[lkeys[k]] = r[rkeys[k]]
        Joined(l) ==
            LET hits == Filter(right.rows, [r \in Range(right.rows) |-> Match(l, r)])
            IN IF hits = << >>
               THEN << [c \in Range(left.cols) \cup Range(extra) |->
                           IF c \in Range(left.cols) THEN l[c] ELSE NullOf(c)] >>
               ELSE [h \in DOMAIN hits |->
                       [c \in Range(left.cols) \cup Range(extra) |->
                           IF c \in Range(left.cols) THEN l[c] ELSE hits[h][c]]]
    IN [cols |-> left.cols \o extra,
        rows |-> Flatten([k \in DOMAIN left.rows |-> Joined(left.rows[k])])]

\* merged.rename(columns={old: new})
Rename(t, old, new) ==
    LET nm(c) == IF c = old THEN new ELSE c
        back(c) == IF c = new THEN old ELSE c
    IN [cols |-> [k \in DOMAIN t.cols |-> nm(t.cols[k])],
        rows |-> [k \in DOMAIN t.rows |->
                    [c \in {nm(x) : x \in Range(t.cols)} |-> t.rows[k][back(c)]]]]

\* ----------------------------------------------------- HRSInterviewData
\* the survey table as HRSInterviewData.__init__ leaves it: id, reference date
\* and, without residential history, the area code column padded to width 11
SurveyTable(raw, mv) ==
    IF mv
    THEN [cols |-> <<ID, DATECOL>>,
          rows |-> [k \in DOMAIN raw |-> [c \in {ID, DATECOL} |->
                      IF c = ID THEN raw[k].id ELSE raw[k].date]]]
    ELSE [cols |-> <<ID, DATECOL, GEOCOL>> \o OtherYearCols,
          rows |-> [k \in DOMAIN raw |->
                      [c \in {ID, DATECOL, GEOCOL} \cup Range(OtherYearCols) |->
                         IF c = ID THEN raw[k].id
                         ELSE IF c = DATECOL THEN raw[k].date
                         ELSE IF c = GEOCOL THEN zfill(PyStr(raw[k].geoid), GeoidWidth)
                         ELSE PyStr(raw[k].other[c[2]])]]]

\* ----------------------------------------------------- HRSContextLinker
\* reference date minus n days; NaT stays NaT
\* n_day_prior that adds the lag
n_day_prior_after(d, n) == IF d = NaT THEN NaT ELSE d + n

n_day_prior(d, n) == IF d = NaT THEN NaT ELSE d - n

\* make_n_day_prior_cols: one date column appended to the survey table
make_n_day_prior_cols(hrs, n) ==
    [cols |-> Append(hrs.cols, LagDate(n)),
     rows |-> [r \in DOMAIN hrs.rows |->
         [c \in Range(hrs.cols) \cup {LagDate(n)} |->
             IF c \in Range(hrs.cols) THEN hrs.rows[r][c]
             ELSE n_day_prior(hrs.rows[r][DATECOL], n)]]]

\* one cell of _compute_geoid_for_date
_compute_geoid_for_date(mv, info, row, dt) ==
    IF mv THEN geoid_based_on_date(info, row[ID], dt)
    ELSE zfill(row[GEOCOL], GeoidWidth)

\* the keys of a dict filled in the order of the list: first occurrences
RECURSIVE DictKeys(_)
DictKeys(seq) ==
    IF seq = << >> THEN << >>
    ELSE LET front == DictKeys(SubSeq(seq, 1, Len(seq) - 1))
         IN IF seq[Len(seq)] \in Range(front) THEN front
            ELSE Append(front, seq[Len(seq)])

\* all date columns, then all area code columns, appended to the survey table
prepare_lag_columns_batch(hrs, lags, mv, info) ==
    LET newcols == DictKeys([k \in DOMAIN lags |-> LagDate(lags[k])] \o
                            [k \in DOMAIN lags |-> LagGeoid(lags[k])])
    IN [cols |-> hrs.cols \o newcols,
        rows |-> [r \in DOMAIN hrs.rows |->
            [c \in Range(hrs.cols) \cup Range(newcols) |->
                IF c \in Range(hrs.cols) THEN hrs.rows[r][c]
                ELSE IF c[1] = "bcdate" THEN n_day_prior(hrs.rows[r][DATECOL], c[2])
                ELSE _compute_geoid_for_date(mv, info, hrs.rows[r],
                                             n_day_prior(hrs.rows[r][DATECOL], c[2]))]]]

\* hrs_copy[n_day_geoid_colname].isna().all()
AllGeoidNA(lag_df, n) == \A r \in DOMAIN lag_df.rows : lag_df.rows[r][LagGeoid(n)] = None

output_merged_columns(lag_df, ctx_df, n, incl) ==
    LET hrs_copy == Project(lag_df, <<ID, LagDate(n), LagGeoid(n)>>)
        lagcols  == IF incl THEN <<LagDate(n), LagGeoid(n)>> ELSE << >>
    IN IF AllGeoidNA(lag_df, n)
       THEN Project(hrs_copy, <<ID>> \o lagcols)
       ELSE Project(Rename(LeftJoin(hrs_copy, ctx_df,
                                    <<LagDate(n), LagGeoid(n)>>, <<CtxDate, CtxGeoid>>),
                           CtxData, LagVal(n)),
                    <<ID>> \o lagcols \o <<LagVal(n)>>)

\* ------------------------------------------------------------- process.py
year_of(d) == IF d >= 0 THEN d \div MonthsPerYear
              ELSE -(((-d) + MonthsPerYear - 1) \div MonthsPerYear)

SetMin(S) == CHOOSE x \in S : \A y \in S : x <= y
SetMax(S) == CHOOSE x \in S : \A y \in S : x >= y

RefDates(hrs) == {hrs.rows[r][DATECOL] : r \in DOMAIN hrs.rows} \ {NaT}

\* dates.min() of an all-null column is NaT, whose .year is no integer
RequiredYearsRaises(hrs) == RefDates(hrs) = {}

\* compute_required_years without "- pd.Timedelta(days=max_lag_days)"
compute_required_years_unshifted(hrs, max_lag_days) ==
    year_of(SetMin(RefDates(hrs))) .. year_of(SetMax(RefDates(hrs)))

compute_required_years(hrs, max_lag_days) ==
    year_of(SetMin(RefDates(hrs)) - max_lag_days) .. year_of(SetMax(RefDates(hrs)))

extract_unique_geoids(lag_df) ==
    { lag_df.rows[r][c] :
        r \in DOMAIN lag_df.rows, c \in {x \in Range(lag_df.cols) : x[1] = "LINKCEN"} }
    \ {None}

\* years in ascending order, as a list
RECURSIVE SortedSeq(_)
SortedSeq(S) == IF S = {} THEN << >>
                ELSE <<SetMin(S)>> \o SortedSeq(S \ {SetMin(S)})

\* ---------------------------------------------------- DailyMeasureDataDir
NoTable == [cols |-> << >>, rows |-> << >>]
NoFilter == [active |-> FALSE, geoids |-> {}]
CtxCols == <<CtxDate, CtxGeoid, CtxData>>

list_years(fs) == DOMAIN fs

\* HeatIndexData.format_cols: the area code as text padded to width 11
format_cols(rows) ==
    [k \in DOMAIN rows |-> [c \in Range(CtxCols) |->
        IF c = CtxGeoid THEN zfill(PyStr(rows[k].geoid), GeoidWidth)
        ELSE IF c = CtxDate THEN rows[k].date ELSE rows[k].value]]

\* reading one year's file, keeping the rows of the filter's area codes
LoadYear(fs, y, flt) ==
    [cols |-> CtxCols,
     rows |-> Filter(format_cols(fs[y]),
                     [r \in Range(format_cols(fs[y])) |->
                         ~flt.active \/ r[CtxGeoid] \in flt.geoids])]

\* __getitem__ for each year of the list: a year is read only if not cached;
\* "under" records the filter in force when the year was read
preload_data(fs, cache, years, flt) ==
    [y \in DOMAIN cache |->
        IF y \in Range(years) /\ ~cache[y].loaded
        THEN [loaded |-> TRUE, df |-> LoadYear(fs, y, flt), under |-> flt]
        ELSE cache[y]]

preload_loads(cache, counts, years) ==
    [y \in DOMAIN counts |->
        IF y \in Range(years) /\ ~cache[y].loaded THEN counts[y] + 1 ELSE counts[y]]

\* pd.concat([contextual_dir[yr].df for yr in years_to_load], axis=0)
concat(cache, years) ==
    [cols |-> CtxCols,
     rows |-> Flatten([k \in DOMAIN years |-> cache[years[k]].df.rows])]

years_to_load(hrs, max_lag, fs) ==
    SortedSeq({y \in compute_required_years(hrs, max_lag) : y \in list_years(fs)})

\* ------------------------------------------------ process_single_lag
\* lines 433-449 after a merge: None when only the id column is left, else the
\* table written to <prefix>_lag_<n>
\* self.df[self.hhidpn] of the dynamic lookup raises KeyError when the survey
\* table has no identifier column
LagColumnsRaise(hrs, mv) == mv /\ ID \notin Range(hrs.cols)

\* precomputed_lag_df[[id_col, ...]] raises KeyError without the column
OutputRaises(lag_df) == ID \notin Range(lag_df.cols)

SkipsWrite(out_df) == Len(out_df.cols) <= 1

MergeRaises(lag_df, n, bad) == ~AllGeoidNA(lag_df, n) /\ n \in bad

\* out_df.to_parquet(temp_file) or the file-format check raises
WriteRaises(n, bw) == n \in bw

\* the file name of a lag without the lag number
lag_path_unnumbered(n) == <<"l", "a", "g">>

\* f"{prefix}_lag_{n:04d}.{file_format}": the lag padded to four digits
lag_path(n) == <<"l", "a", "g", "_">> \o zfill(IntStr(n), 4)

\* the branch without precomputed tables (lines 398-431); the result is
\* [filter, data, loads, wrote, werr, out]: the store as the call leaves it,
\* whether a file was written, whether the write raised, and the table.
\* Every exception ends in "return None".
single_lag(hrs, n, mv, info, incl, bad, fs, flt, cache, counts, bw) ==
    LET lag_df == prepare_lag_columns_batch(hrs, <<n>>, mv, info)
        uniq   == extract_unique_geoids(lag_df)
    IN IF LagColumnsRaise(hrs, mv) \/ RequiredYearsRaises(hrs)
       THEN [filter |-> flt, data |-> cache, loads |-> counts,
             wrote |-> FALSE, werr |-> FALSE, out |-> NoTable]
       ELSE LET yrs   == years_to_load(hrs, n, fs)
                flt2  == [active |-> TRUE, geoids |-> uniq]
                data2 == preload_data(fs, cache, yrs, flt2)
                cnt2  == preload_loads(cache, counts, yrs)
                out   == output_merged_columns(lag_df, concat(data2, yrs), n, incl)
                ok    == /\ yrs # << >>
                         /\ ~OutputRaises(lag_df)
                         /\ ~MergeRaises(lag_df, n, bad)
                         /\ ~SkipsWrite(out)
            IN [filter |-> flt2, data |-> data2, loads |-> cnt2,
                wrote |-> ok /\ ~WriteRaises(n, bw),
                werr |-> ok /\ WriteRaises(n, bw),
                out |-> IF ok /\ ~WriteRaises(n, bw) THEN out ELSE NoTable]

\* the worker that is not handed the precomputed tables and computes its own
task_result_recomputed(n) ==
    single_lag(hrs_df, n, move, move_info, include_lag_date, bad_lags,
               files, geoid_filter, data, loads, bad_writes)

\* the branch with precomputed tables (lines 387-397, 433-449): the store is
\* not used
task_result(n) ==
    LET out == output_merged_columns(hrs_with_lags, contextual_df, n, include_lag_date)
        ok  == /\ ~OutputRaises(hrs_with_lags)
               /\ ~MergeRaises(hrs_with_lags, n, bad_lags)
               /\ ~SkipsWrite(out)
    IN [filter |-> geoid_filter, data |-> data, loads |-> loads,
        wrote |-> ok /\ ~WriteRaises(n, bad_writes),
        werr |-> ok /\ WriteRaises(n, bad_writes),
        out |-> IF ok /\ ~WriteRaises(n, bad_writes) THEN out ELSE NoTable]

\* the scratch directory after the call for lag n with result r.  The file is
\* written straight to its final path and nothing removes it when the write
\* raises: a write that raised before the file was created leaves nothing, one
\* that raised midway leaves a truncated file (partial)
scratch_after(dir, n, r, partial) ==
    IF r.wrote THEN (n :> r.out) @@ dir
    ELSE IF r.werr /\ partial THEN (n :> NoTable) @@ dir
    ELSE dir

\* the sequential strategy: process_single_lag once per lag on one store
process_single_lag ==
    /\ pc = "sequential"
    /\ LET n == n_days[lag_ix]
           r == single_lag(hrs_df, n, move, move_info, include_lag_date, bad_lags,
                           files, geoid_filter, data, loads, bad_writes)
       IN /\ geoid_filter' = r.filter
          /\ data' = r.data
          /\ loads' = r.loads
          /\ \E partial \in BOOLEAN : temp_dir' = scratch_after(temp_dir, n, r, partial)
          /\ temp_files' = IF r.wrote THEN Append(temp_files, n) ELSE temp_files
          /\ write_errors' = IF r.werr THEN write_errors \cup {n} ELSE write_errors
    /\ lag_ix' = lag_ix + 1
    /\ pc' = IF lag_ix = Len(n_days) THEN "returned" ELSE pc
    /\ UNCHANGED <<error, idx_vars, in_vars, bad_writes, task_writes, thr,
                   hrs_df, move, n_days, include_lag_date, strategy, bad_lags,
                   files, hrs_with_lags, contextual_df, futures, final_df>>

\* ------------------------------ process_multiple_lags_batch / _parallel
\* steps 1-3, the same in both: lag columns, area-code filter, filtered load
precompute(next_pc) ==
    LET lag_df == prepare_lag_columns_batch(hrs_df, n_days, move, move_info)
        uniq   == extract_unique_geoids(lag_df)
        max_lag == SetMax(Range(n_days))
    IN IF LagColumnsRaise(hrs_df, move) \/ RequiredYearsRaises(hrs_df)
       THEN /\ pc' = "raised"
            /\ error' = IF LagColumnsRaise(hrs_df, move) THEN "KeyError" ELSE "TypeError"
            /\ UNCHANGED <<geoid_filter, data, loads, hrs_with_lags, contextual_df>>
       ELSE LET yrs  == years_to_load(hrs_df, max_lag, files)
                flt2 == [active |-> TRUE, geoids |-> uniq]
            IN /\ geoid_filter' = flt2
               /\ data' = preload_data(files, data, yrs, flt2)
               /\ loads' = preload_loads(data, loads, yrs)
               /\ hrs_with_lags' = lag_df
               /\ IF yrs = << >>
                  THEN /\ pc' = "raised"
                       /\ error' = "ValueError"
                       /\ UNCHANGED contextual_df
                  ELSE /\ pc' = next_pc
                       /\ error' = "none"
                       /\ contextual_df' = concat(data', yrs)

batch_precompute ==
    /\ pc = "batch"
    /\ precompute("batch_loop")
    /\ UNCHANGED <<idx_vars, in_vars, env_vars, hrs_df, move, n_days, include_lag_date, strategy, bad_lags,
                   files, futures, temp_dir, temp_files, lag_ix, final_df>>

\* one iteration of the loop of lines 175-207; an exception of the merge or
\* of the write is not caught
batch_lag ==
    /\ pc = "batch_loop"
    /\ LET n == n_days[lag_ix]
           r == task_result(n)
       IN /\ \E partial \in BOOLEAN : temp_dir' = scratch_after(temp_dir, n, r, partial)
          /\ write_errors' = IF r.werr THEN write_errors \cup {n} ELSE write_errors
          /\ IF OutputRaises(hrs_with_lags) \/ MergeRaises(hrs_with_lags, n, bad_lags) \/ r.werr
             THEN /\ pc' = "raised"
                  /\ error' = IF OutputRaises(hrs_with_lags) THEN "KeyError"
                              ELSE IF r.werr THEN "OSError" ELSE "MergeError"
                  /\ UNCHANGED <<temp_files, lag_ix>>
             ELSE /\ error' = "none"
                  /\ temp_files' = IF r.wrote THEN Append(temp_files, n) ELSE temp_files
                  /\ lag_ix' = lag_ix + 1
                  /\ pc' = IF lag_ix = Len(n_days) THEN "returned" ELSE pc
    /\ UNCHANGED <<idx_vars, in_vars, bad_writes, task_writes, thr,
                   hrs_df, move, n_days, include_lag_date, strategy, bad_lags,
                   files, geoid_filter, data, loads, hrs_with_lags, contextual_df,
                   futures, final_df>>

\* steps 1-3 and the submission of one task per element of the list of lags
parallel_precompute ==
    /\ pc = "parallel"
    /\ precompute("parallel_run")
    /\ futures' = IF pc' = "parallel_run"
                  THEN [i \in DOMAIN n_days |-> [state |-> "pending", wrote |-> FALSE]]
                  ELSE futures
    /\ UNCHANGED <<idx_vars, in_vars, env_vars, hrs_df, move, n_days, include_lag_date, strategy, bad_lags,
                   files, temp_dir, temp_files, lag_ix, final_df>>

\* the worker of task i runs process_single_lag with the precomputed tables
\* (lines 387-397, 433-453): every exception ends in "return None"
parallel_task(i) ==
    /\ pc = "parallel_run"
    /\ futures[i].state = "pending"
    /\ LET n == n_days[i]
           r == task_result(n)
       IN /\ geoid_filter' = r.filter
          /\ data' = r.data
          /\ loads' = r.loads
          /\ \E partial \in BOOLEAN : temp_dir' = scratch_after(temp_dir, n, r, partial)
          /\ task_writes' = IF r.wrote THEN task_writes \cup {<<i, lag_path(n)>>}
                            ELSE task_writes
          /\ write_errors' = IF r.werr THEN write_errors \cup {n} ELSE write_errors
          /\ futures' = [futures EXCEPT ![i] = [state |-> "finished", wrote |-> r.wrote]]
    /\ UNCHANGED <<error, idx_vars, in_vars, bad_writes, thr,
                   hrs_df, move, n_days, include_lag_date, strategy, bad_lags,
                   files, hrs_with_lags, contextual_df,
                   temp_files, pc, lag_ix, final_df>>

\* as_completed hands over the finished future of task i; its path is appended
parallel_collect(i) ==
    /\ pc = "parallel_run"
    /\ futures[i].state = "finished"
    /\ futures' = [futures EXCEPT ![i].state = "collected"]
    /\ temp_files' = IF futures[i].wrote THEN Append(temp_files, n_days[i]) ELSE temp_files
    /\ UNCHANGED <<error, idx_vars, in_vars, env_vars, hrs_df, move, n_days, include_lag_date, strategy, bad_lags,
                   files, geoid_filter, data, loads, hrs_with_lags, contextual_df,
                   temp_dir, pc, lag_ix, final_df>>

\* all_collected that is satisfied by the first future handled
some_collected(fs) == \E i \in DOMAIN fs : fs[i].state = "collected"

\* the loop over as_completed(futures) has handled every future
all_collected(fs) == \A i \in DOMAIN fs : fs[i].state = "collected"

parallel_return ==
    /\ pc = "parallel_run"
    /\ all_collected(futures)
    /\ pc' = "returned"
    /\ UNCHANGED <<error, idx_vars, in_vars, env_vars, hrs_df, move, n_days, include_lag_date, strategy, bad_lags,
                   files, geoid_filter, data, loads, hrs_with_lags, contextual_df,
                   futures, temp_dir, temp_files, lag_ix, final_df>>

\* ---------------------------------------------------------- run_pipeline
\* sort_by_lag that leaves the list in the order of collection
sort_by_lag_unsorted(paths) == paths

\* temp_files.sort(key=lag number)
sort_by_lag(paths) == SortedSeq(Range(paths))

\* the rows with the smallest id first, the others after them, order kept
RECURSIVE SortById(_)
SortById(rows) ==
    IF rows = << >> THEN << >>
    ELSE LET lo == CHOOSE x \in {rows[k][ID] : k \in DOMAIN rows} :
                       \A k \in DOMAIN rows : x <= rows[k][ID]
         IN Filter(rows, [r \in Range(rows) |-> r[ID] = lo]) \o
            SortById(Filter(rows, [r \in Range(rows) |-> r[ID] # lo]))

\* merge_all with a join that sorts the result by the join key (sort=True)
RECURSIVE merge_all_sorted(_, _, _)
merge_all_sorted(acc, paths, dir) ==
    IF paths = << >> THEN acc
    ELSE LET j == LeftJoin(acc, dir[paths[1]], <<ID>>, <<ID>>)
         IN merge_all_sorted([j EXCEPT !.rows = SortById(j.rows)], Tail(paths), dir)

\* merge_all that stops after the first table
merge_all_first_only(acc, paths, dir) ==
    IF paths = << >> THEN acc
    ELSE LeftJoin(acc, dir[paths[1]], <<ID>>, <<ID>>)

RECURSIVE merge_all(_, _, _)
merge_all(acc, paths, dir) ==
    IF paths = << >> THEN acc
    ELSE merge_all(LeftJoin(acc, dir[paths[1]], <<ID>>, <<ID>>), Tail(paths), dir)

\* lines 157-170: the per-lag tables are left-joined onto the base table
assemble ==
    /\ pc = "returned"
    /\ final_df' = merge_all(hrs_df, sort_by_lag(temp_files), temp_dir)
    /\ pc' = "done"
    /\ UNCHANGED <<error, idx_vars, in_vars, env_vars, hrs_df, move, n_days, include_lag_date, strategy, bad_lags,
                   files, geoid_filter, data, loads, hrs_with_lags, contextual_df,
                   futures, temp_dir, temp_files, lag_ix>>

\* ------------------------------------------------------------ the inputs
\* no run: the state of the run variables while only the index is exercised
RunIdle ==
    /\ hrs_df = NoTable
    /\ move = FALSE
    /\ n_days = << >>
    /\ include_lag_date = FALSE
    /\ strategy = "none"
    /\ bad_lags = {}
    /\ files = << >>
    /\ geoid_filter = NoFilter
    /\ data = << >>
    /\ loads = << >>
    /\ hrs_with_lags = NoTable
    /\ contextual_df = NoTable
    /\ futures = << >>
    /\ temp_dir = << >>
    /\ temp_files = << >>
    /\ pc = "idle"
    /\ error = "none"
    /\ lag_ix = 0
    /\ final_df = NoTable

\* no write can fail, nothing was written, no thread uses the store
EnvIdle ==
    /\ bad_writes = {}
    /\ write_errors = {}
    /\ task_writes = {}
    /\ thr = << >>

\* nothing read at the input boundary yet
InIdle ==
    /\ raw_df = << >>
    /\ raw_pid = None
    /\ raw_geoid = None
    /\ site = "none"
    /\ norm_geoid = None
    /\ again = FALSE

MoveRow(k, p, mc, y, m) ==
    [hhidpn |-> p, movecol |-> mc, mvyear |-> y, mvmonth |-> m,
     year |-> SurveyYear, geoid |-> RowGeoid(k)]

\* residential histories of the runs: respondent 1 lives in tract 1 from date 2
\* and in tract 2 from date 3; respondent 2 is absent, or lives in tract 3 from
\* the January of the survey year (date 2)
HistOne == << MoveRow(1, 1, first_tract_mark, 1, 1), MoveRow(2, 1, moved_mark, 1, 2) >>
HistTwo == Append(HistOne, MoveRow(3, 2, first_tract_mark, NA, NA))
Histories == {HistOne, HistTwo}

\* survey rows: the k-th row carries the static area code k in the column of
\* the survey year and the area code 9 in the columns of the other years
SurveyCells == {<<1, 2>>, <<1, 3>>, <<2, 3>>, <<NA, 3>>, <<1, NaT>>}
SurveyRows(k) ==
    { [id |-> c[1], date |-> c[2], geoid |-> RowGeoid(k),
       other |-> [y \in OtherYears |-> [t |-> "int", n |-> 9]]] : c \in SurveyCells }
Surveys ==
    { <<r>> : r \in SurveyRows(1) } \cup
    { <<r, q>> : r \in SurveyRows(1), q \in SurveyRows(2) }

\* contextual files: one record per date of the year and tract 1, 2, 9
Measure(d, g) == 10 * (d + 1) + g
YearDates(y) == {d \in Dates : year_of(d) = y}
CtxRecord(d, g) == [date |-> d, geoid |-> [t |-> "int", n |-> g], value |-> Measure(d, g)]
YearFile(y) ==
    Flatten([k \in DOMAIN SortedSeq(YearDates(y)) |->
        [j \in 1..3 |-> CtxRecord(SortedSeq(YearDates(y))[k], <<1, 2, 9>>[j])]])
\* every year on disk, one record per (date, tract)
StoreFull == [y \in Years |-> YearFile(y)]
\* only year 1 on disk, and no record for (date 2, tract 1)
StoreSparse ==
    [y \in {1} |-> Filter(YearFile(y), [r \in Range(YearFile(y)) |-> ~(r.date = 2 /\ r.geoid.n = 1)])]
\* a second record for (date 3, tract 2)
StoreDup ==
    [y \in Years |-> IF y = 1
                     THEN Append(YearFile(y), [CtxRecord(3, 2) EXCEPT !.value = 99])
                     ELSE YearFile(y)]
Stores == {StoreFull, StoreSparse, StoreDup}

\* n_days = list(range(n_lags))
LagList(k) == [j \in 1..k |-> j - 1]

RunInit ==
    /\ InIdle
    /\ EnvIdle
    /\ move \in BOOLEAN
    /\ df \in IF move THEN Histories ELSE {<< >>}
    /\ move_info = MoveInfoOf(df)
    /\ parse_state = IF move THEN "parsed" ELSE "new"
    /\ debug_raised = (move /\ DebugCallRaises)
    /\ q_pid = NA
    /\ q_dt = NaT
    /\ q_geoid = None
    /\ \E raw \in Surveys : hrs_df = SurveyTable(raw, move)
    /\ \E k \in 1..MaxLags : n_days = LagList(k)
    /\ include_lag_date \in BOOLEAN
    /\ strategy \in {"sequential", "batch", "parallel"}
    /\ bad_lags \in {{}} \cup {{n} : n \in Range(n_days)}
    /\ files \in Stores
    /\ geoid_filter = NoFilter
    /\ data = [y \in DOMAIN files |-> [loaded |-> FALSE, df |-> NoTable, under |-> NoFilter]]
    /\ loads = [y \in DOMAIN files |-> 0]
    /\ hrs_with_lags = NoTable
    /\ contextual_df = NoTable
    /\ futures = << >>
    /\ temp_dir = << >>
    /\ temp_files = << >>
    /\ pc = strategy
    /\ error = "none"
    /\ lag_ix = 1
    /\ final_df = NoTable

RunNext ==
    \/ process_single_lag
    \/ batch_precompute
    \/ batch_lag
    \/ parallel_precompute
    \/ \E i \in DOMAIN n_days : parallel_task(i)
    \/ \E i \in DOMAIN n_days : parallel_collect(i)
    \/ parallel_return
    \/ assemble

Spec == RunInit /\ [][RunNext]_vars

\* runs in which the file of at most one lag cannot be written
WriteInit ==
    /\ InIdle
    /\ move \in BOOLEAN
    /\ df \in IF move THEN Histories ELSE {<< >>}
    /\ move_info = MoveInfoOf(df)
    /\ parse_state = IF move THEN "parsed" ELSE "new"
    /\ debug_raised = (move /\ DebugCallRaises)
    /\ q_pid = NA
    /\ q_dt = NaT
    /\ q_geoid = None
    /\ \E raw \in Surveys : hrs_df = SurveyTable(raw, move)
    /\ \E k \in 1..MaxLags : n_days = LagList(k)
    /\ include_lag_date \in BOOLEAN
    /\ strategy \in {"sequential", "batch", "parallel"}
    /\ bad_lags \in {{}} \cup {{n} : n \in Range(n_days)}
    /\ bad_writes \in {{}} \cup {{n} : n \in Range(n_days)}
    /\ write_errors = {}
    /\ task_writes = {}
    /\ thr = << >>
    /\ files = StoreFull
    /\ geoid_filter = NoFilter
    /\ data = [y \in DOMAIN files |-> [loaded |-> FALSE, df |-> NoTable, under |-> NoFilter]]
    /\ loads = [y \in DOMAIN files |-> 0]
    /\ hrs_with_lags = NoTable
    /\ contextual_df = NoTable
    /\ futures = << >>
    /\ temp_dir = << >>
    /\ temp_files = << >>
    /\ pc = strategy
    /\ error = "none"
    /\ lag_ix = 1
    /\ final_df = NoTable

SpecWrite == WriteInit /\ [][RunNext]_vars

\* lists of lags handed to process_multiple_lags_parallel: any order, with
\* or without repeated lags
DupLists == UNION { [1..k -> 0..(MaxLags - 1)] : k \in 1..MaxLags }

DupInit ==
    /\ InIdle
    /\ EnvIdle
    /\ move \in BOOLEAN
    /\ df \in IF move THEN Histories ELSE {<< >>}
    /\ move_info = MoveInfoOf(df)
    /\ parse_state = IF move THEN "parsed" ELSE "new"
    /\ debug_raised = (move /\ DebugCallRaises)
    /\ q_pid = NA
    /\ q_dt = NaT
    /\ q_geoid = None
    /\ \E raw \in Surveys : hrs_df = SurveyTable(raw, move)
    /\ n_days \in DupLists
    /\ include_lag_date = FALSE
    /\ strategy = "parallel"
    /\ bad_lags \in {{}} \cup {{n} : n \in Range(n_days)}
    /\ files = StoreFull
    /\ geoid_filter = NoFilter
    /\ data = [y \in DOMAIN files |-> [loaded |-> FALSE, df |-> NoTable, under |-> NoFilter]]
    /\ loads = [y \in DOMAIN files |-> 0]
    /\ hrs_with_lags = NoTable
    /\ contextual_df = NoTable
    /\ futures = << >>
    /\ temp_dir = << >>
    /\ temp_files = << >>
    /\ pc = strategy
    /\ error = "none"
    /\ lag_ix = 1
    /\ final_df = NoTable

\* process_multiple_lags_parallel alone, up to its return
DupNext ==
    \/ parallel_precompute
    \/ \E i \in DOMAIN n_days : parallel_task(i)
    \/ \E i \in DOMAIN n_days : parallel_collect(i)
    \/ parallel_return

SpecDup == DupInit /\ [][DupNext]_vars

\* what the scheduling guarantees, in terms of the positions alone: the
\* calling thread goes on after steps 1-3 and after the last future, the
\* executor runs a pending task to its end, as_completed hands over a
\* finished future
MainRuns ==
    \/ pc = "parallel" /\ pc' \in {"parallel_run", "raised"}
    \/ pc = "parallel_run" /\ all_collected(futures) /\ pc' = "returned"

ExecutorRuns ==
    /\ pc = "parallel_run"
    /\ \E i \in DOMAIN futures : \E w \in BOOLEAN :
           /\ futures[i].state = "pending"
           /\ futures' = [futures EXCEPT ![i] = [state |-> "finished", wrote |-> w]]

CollectorRuns ==
    /\ pc = "parallel_run"
    /\ \E i \in DOMAIN futures :
           /\ futures[i].state = "finished"
           /\ futures' = [futures EXCEPT ![i].state = "collected"]

SpecDupLive ==
    DupInit /\ [][DupNext]_vars
            /\ WF_pc(MainRuns) /\ WF_futures(ExecutorRuns) /\ WF_futures(CollectorRuns)

\* the survey table without the columns of the set gone
DropCols(t, gone) ==
    LET kept == Filter(t.cols, [c \in Range(t.cols) |-> c \notin gone])
    IN [cols |-> kept,
        rows |-> [k \in DOMAIN t.rows |-> [c \in Range(kept) |-> t.rows[k][c]]]]

\* the required columns that a survey file can lack
MissingSets == {{ID}, {DATECOL}, {ID, DATECOL}}

\* HRSInterviewData.__init__ on the table read from the file: the date
\* column is asserted, the identifier column is converted only if present
HRSInterviewData_init ==
    /\ pc = "construct"
    /\ IF DATECOL \in Range(hrs_df.cols)
       THEN pc' = strategy /\ error' = "none"
       ELSE pc' = "raised" /\ error' = "AssertionError"
    /\ UNCHANGED <<idx_vars, in_vars, env_vars, hrs_df, move, n_days, include_lag_date, strategy, bad_lags,
                   files, geoid_filter, data, loads, hrs_with_lags, contextual_df,
                   futures, temp_dir, temp_files, lag_ix, final_df>>

\* runs on a survey file that lacks a required column
MissingInit ==
    /\ InIdle
    /\ EnvIdle
    /\ move \in BOOLEAN
    /\ df \in IF move THEN Histories ELSE {<< >>}
    /\ move_info = MoveInfoOf(df)
    /\ parse_state = IF move THEN "parsed" ELSE "new"
    /\ debug_raised = (move /\ DebugCallRaises)
    /\ q_pid = NA
    /\ q_dt = NaT
    /\ q_geoid = None
    /\ \E raw \in Surveys, gone \in MissingSets :
           hrs_df = DropCols(SurveyTable(raw, move), gone)
    /\ \E k \in 1..MaxLags : n_days = LagList(k)
    /\ include_lag_date \in BOOLEAN
    /\ strategy \in {"sequential", "batch", "parallel"}
    /\ bad_lags = {}
    /\ files \in Stores
    /\ geoid_filter = NoFilter
    /\ data = [y \in DOMAIN files |-> [loaded |-> FALSE, df |-> NoTable, under |-> NoFilter]]
    /\ loads = [y \in DOMAIN files |-> 0]
    /\ hrs_with_lags = NoTable
    /\ contextual_df = NoTable
    /\ futures = << >>
    /\ temp_dir = << >>
    /\ temp_files = << >>
    /\ pc = "construct"
    /\ error = "none"
    /\ lag_ix = 1
    /\ final_df = NoTable

MissingNext ==
    \/ HRSInterviewData_init
    \/ RunNext

SpecMissing == MissingInit /\ [][MissingNext]_vars

IndexInit ==
    /\ InIdle
    /\ EnvIdle
    /\ df \in Tables(MaxRows)
    /\ move_info = << >>
    /\ parse_state = "new"
    /\ debug_raised = FALSE
    /\ q_pid = NA
    /\ q_dt = NaT
    /\ q_geoid = None
    /\ RunIdle

IndexNext ==
    \/ _parse_move_info
    \/ \E pid \in PIDs \cup {NA}, dt \in Dates \cup {NaT} :
           create_geoid_based_on_date(pid, dt)

SpecIndex == IndexInit /\ [][IndexNext]_vars

\* histories of one respondent with a first residence and two moves, every
\* record dated: the three dates in any order
HistThree ==
    { << MoveRow(1, 1, first_tract_mark, a[1], a[2]),
         MoveRow(2, 1, moved_mark, b[1], b[2]),
         MoveRow(3, 1, moved_mark, c[1], c[2]) >> :
        a \in Years \X Months, b \in Years \X Months, c \in Years \X Months }

ThreeInit ==
    /\ InIdle
    /\ EnvIdle
    /\ df \in HistThree
    /\ move_info = << >>
    /\ parse_state = "new"
    /\ debug_raised = FALSE
    /\ q_pid = NA
    /\ q_dt = NaT
    /\ q_geoid = None
    /\ RunIdle

SpecThree == ThreeInit /\ [][IndexNext]_vars

\* ------------------------------------------------- area-code normalization
\* raw area-code values: numbers read as int or as float, and text of 1 to
\* MaxGeoidChars characters, with or without leading zeros
RawGeoids ==
    { [t |-> "int", n |-> n] : n \in {0, 7, 36061, 1234567890} } \cup
    { [t |-> "float", n |-> n] : n \in {0, 7, 36061, 1234567890} } \cup
    { [t |-> "str", s |-> [k \in 1..len |-> d]] :
        len \in 1..MaxGeoidChars, d \in {"0", "7"} }

Sites == {"index", "lookup", "static", "store"}

\* a one-record history, a one-row survey table and a one-record year file
\* that carry the raw value x
HistOf(x) == << [MoveRow(1, 1, first_tract_mark, NA, NA) EXCEPT !.geoid = x] >>
SurveyOf(x) == << [id |-> 1, date |-> 2, geoid |-> x, other |-> [y \in OtherYears |-> x]] >>
FileOf(x) == << [date |-> 2, geoid |-> x, value |-> 0] >>

\* the area code that each place of the code makes of the raw value x
normalize_at(where, x) ==
    CASE where = "index"  -> person_entry(HistOf(x))[2][1]
      [] where = "lookup" -> geoid_based_on_date(MoveInfoOf(HistOf(x)), 1,
                                                 to_datetime(SurveyYear, 1))
      [] where = "static" -> _compute_geoid_for_date(FALSE, << >>,
                                 SurveyTable(SurveyOf(x), FALSE).rows[1], 2)
      [] where = "store"  -> format_cols(FileOf(x))[1][CtxGeoid]

normalize(where) ==
    /\ site = "none"
    /\ raw_geoid # None
    /\ site' = where
    /\ norm_geoid' = normalize_at(where, raw_geoid)
    /\ UNCHANGED <<idx_vars, run_vars, env_vars, raw_df, raw_pid, raw_geoid, again>>

\* the normalized text goes through the same place once more (as the static
\* column does: padded on construction, padded again on resolution)
renormalize ==
    /\ site # "none"
    /\ ~again
    /\ again' = TRUE
    /\ norm_geoid' = normalize_at(site, [t |-> "str", s |-> norm_geoid])
    /\ UNCHANGED <<idx_vars, run_vars, env_vars, raw_df, raw_pid, raw_geoid, site>>

IdxIdle ==
    /\ df = << >>
    /\ move_info = << >>
    /\ parse_state = "new"
    /\ debug_raised = FALSE
    /\ q_pid = NA
    /\ q_dt = NaT
    /\ q_geoid = None

NormalizeInit ==
    /\ IdxIdle
    /\ RunIdle
    /\ EnvIdle
    /\ raw_df = << >>
    /\ raw_pid = None
    /\ raw_geoid \in RawGeoids
    /\ site = "none"
    /\ norm_geoid = None
    /\ again = FALSE

NormalizeNext ==
    \/ \E where \in Sites : normalize(where)
    \/ renormalize

SpecNormalize == NormalizeInit /\ [][NormalizeNext]_vars

\* ------------------------------------------------- respondent identifiers
\* the value of a decimal digit character
DigitVal(c) == CHOOSE d \in 0..9 : DigitChar(d) = c

IsDigits(s) == Len(s) > 0 /\ \A i \in DOMAIN s : \E d \in 0..9 : DigitChar(d) = s[i]

RECURSIVE ParseDigits(_)
ParseDigits(s) == IF Len(s) = 0 THEN 0
                  ELSE ParseDigits(SubSeq(s, 1, Len(s) - 1)) * 10 + DigitVal(s[Len(s)])

\* text of a whole number with a ".0" fraction
IsWholeFloatText(s) ==
    /\ Len(s) > 2
    /\ SubSeq(s, Len(s) - 1, Len(s)) = <<".", "0">>
    /\ IsDigits(SubSeq(s, 1, Len(s) - 2))

\* to_Int64 that leaves text unconverted: text identifiers become <NA>
to_Int64_numbers_only(v) == IF v.t = "str" THEN NA ELSE v.n

\* pd.to_numeric(x, errors="coerce").astype("Int64") of one cell: a number
\* keeps its value, digit text is parsed, any other text becomes <NA>
to_Int64(v) ==
    CASE v.t = "int"   -> v.n
      [] v.t = "float" -> v.n
      [] v.t = "str"   -> IF IsDigits(v.s) THEN ParseDigits(v.s)
                          ELSE IF IsWholeFloatText(v.s)
                               THEN ParseDigits(SubSeq(v.s, 1, Len(v.s) - 2))
                               ELSE NA

\* a respondent identifier that no history record carries
AbsentPid == 12

\* the representations of the identifier p: integer, float, text
IdReps(p) == { [t |-> "int", n |-> p], [t |-> "float", n |-> p],
               [t |-> "str", s |-> IntStr(p)] }

\* the history HistTwo with every identifier cell in any representation
RawHistories ==
    { [k \in DOMAIN HistTwo |-> [HistTwo[k] EXCEPT !.hhidpn = reps[k]]] :
        reps \in { f \in [DOMAIN HistTwo -> UNION {IdReps(p) : p \in PIDs}] :
                     \A k \in DOMAIN HistTwo : f[k] \in IdReps(HistTwo[k].hhidpn) } }

\* identifiers of a lookup series: every representation of a present and of
\* an absent identifier, the text "1.0", and the text "1x" that is no number
RawLookupIds ==
    UNION {IdReps(p) : p \in PIDs \cup {AbsentPid}} \cup
    { [t |-> "str", s |-> <<"1", "x">>], [t |-> "str", s |-> <<"1", ".", "0">>] }

\* ResidentialHistoryHRS.__init__: the identifier column is converted, then
\* the index is built
read_history ==
    /\ parse_state = "new"
    /\ raw_df # << >>
    /\ LET rows == [k \in DOMAIN raw_df |->
                       [raw_df[k] EXCEPT !.hhidpn = to_Int64(raw_df[k].hhidpn)]]
       IN /\ df' = rows
          /\ IF ParseRaises(rows)
             THEN /\ parse_state' = "raised"
                  /\ UNCHANGED <<move_info, debug_raised>>
             ELSE /\ parse_state' = "parsed"
                  /\ move_info' = MoveInfoOf(rows)
                  /\ debug_raised' = DebugCallRaises
    /\ UNCHANGED <<q_pid, q_dt, q_geoid, run_vars, in_vars, env_vars>>

\* create_geoid_based_on_date on one row of the series: the identifier is
\* converted, then looked up
lookup_raw(rawpid, dt) ==
    /\ parse_state = "parsed"
    /\ raw_pid' = rawpid
    /\ q_pid' = to_Int64(rawpid)
    /\ q_dt' = dt
    /\ q_geoid' = geoid_based_on_date(move_info, to_Int64(rawpid), dt)
    /\ UNCHANGED <<df, move_info, parse_state, debug_raised, run_vars, env_vars,
                   raw_df, raw_geoid, site, norm_geoid, again>>

IdsInit ==
    /\ IdxIdle
    /\ RunIdle
    /\ EnvIdle
    /\ raw_df \in RawHistories
    /\ raw_pid = None
    /\ raw_geoid = None
    /\ site = "none"
    /\ norm_geoid = None
    /\ again = FALSE

IdsNext ==
    \/ read_history
    \/ \E rawpid \in RawLookupIds, dt \in Dates \cup {NaT} : lookup_raw(rawpid, dt)

SpecIds == IdsInit /\ [][IdsNext]_vars

\* ------------------------------------------------------------------ claims
StrictlyIncreasing(dates) == \A j \in 1..(Len(dates) - 1) : dates[j] < dates[j + 1]

\* the last lookup was made for an indexed respondent and a non-null date
LookedUpIndexed ==
    /\ parse_state = "parsed"
    /\ q_pid \in DOMAIN move_info
    /\ q_dt # NaT

\* C1: for a respondent whose stored effective dates are strictly increasing
\* (the first-residence record is the earliest and the move records follow it
\* in chronological order, all dates distinct) and a non-null query date on or
\* after the first effective date, the lookup returns the area code of the
\* entry with the greatest effective date <= the query date; a query date equal
\* to an effective date returns that entry's area code.
C1_LatestEntryGoverns ==
    LookedUpIndexed =>
        LET dates  == move_info[q_pid][1]
            geoids == move_info[q_pid][2]
        IN (StrictlyIncreasing(dates) /\ q_dt >= dates[1]) =>
              \E k \in DOMAIN dates :
                  /\ dates[k] <= q_dt
                  /\ \A j \in DOMAIN dates : dates[j] <= q_dt => dates[j] <= dates[k]
                  /\ q_geoid = geoids[k]

\* a lookup at exactly the effective date of a respondent's second residence
\* returned the second residence
C1_Witness ==
    /\ LookedUpIndexed
    /\ Len(move_info[q_pid][1]) = 2
    /\ StrictlyIncreasing(move_info[q_pid][1])
    /\ q_dt = move_info[q_pid][1][2]
    /\ q_geoid = move_info[q_pid][2][2]

\* C2: for a respondent with at least one recorded residence, a lookup of a
\* non-null date strictly earlier than the first effective date (move_dates[0],
\* the date of the first-residence record) returns None, and a lookup of the
\* first effective date or any later date returns a defined area code, one of
\* the respondent's stored area codes.
C2_UnknownExactlyBeforeFirst ==
    LookedUpIndexed =>
        LET first == move_info[q_pid][1][1]
        IN /\ q_dt < first => q_geoid = None
           /\ q_dt >= first => (q_geoid # None /\ q_geoid \in Range(move_info[q_pid][2]))

\* a lookup at exactly the first effective date returned the first residence
C2_Witness ==
    /\ LookedUpIndexed
    /\ q_dt = move_info[q_pid][1][1]
    /\ q_geoid = move_info[q_pid][2][1]

\* C3: for every respondent of the index built by _parse_move_info, whatever the
\* order of the respondent's move records in the input, the stored effective
\* dates are strictly increasing (so the first stored entry is the earliest).
C3_StoredDatesIncreasing ==
    parse_state = "parsed" =>
        \A p \in DOMAIN move_info : StrictlyIncreasing(move_info[p][1])

\* ------------------------------------------------- claims on the pipeline
\* the lag-column table of the whole lag list, and the area code resolved for
\* base row k at lag n
LagTable == prepare_lag_columns_batch(hrs_df, n_days, move, move_info)
TargetDate(k, n) == n_day_prior(hrs_df.rows[k][DATECOL], n)
Resolved(k, n) == _compute_geoid_for_date(move, move_info, hrs_df.rows[k], TargetDate(k, n))

Returned == pc \in {"returned", "done"}

\* the merge of lag n was performed and its table written
Merged(n) == n \in DOMAIN temp_dir /\ LagVal(n) \in Range(temp_dir[n].cols)

\* what process_multiple_lags_batch does with the inputs of the run, as a
\* function: whether it raises, and the tables it writes when it does not
BatchYears == years_to_load(hrs_df, SetMax(Range(n_days)), files)
BatchRaises ==
    \/ RequiredYearsRaises(hrs_df)
    \/ BatchYears = << >>
    \/ \E n \in Range(n_days) : MergeRaises(LagTable, n, bad_lags)
BatchContext ==
    LET flt   == [active |-> TRUE, geoids |-> extract_unique_geoids(LagTable)]
        fresh == [y \in DOMAIN files |-> [loaded |-> FALSE, df |-> NoTable, under |-> NoFilter]]
    IN concat(preload_data(files, fresh, BatchYears, flt), BatchYears)
BatchOut(n) == output_merged_columns(LagTable, BatchContext, n, include_lag_date)
BatchFiles == [n \in {m \in Range(n_days) : ~SkipsWrite(BatchOut(m))} |-> BatchOut(n)]

\* C4: whatever the strategy, a run returns exactly when the batched strategy
\* returns on the same inputs, with the same per-lag files of the same contents,
\* and the assembled final table is the one assembled from the batched files.
C4_StrategiesAgree ==
    /\ Returned => (~BatchRaises /\ temp_dir = BatchFiles)
    /\ pc = "raised" => BatchRaises
    /\ pc = "done" => final_df = merge_all(hrs_df, SortedSeq(DOMAIN BatchFiles), BatchFiles)

\* the years concatenated for the merge of lag n
YearsUsed(n) ==
    IF strategy = "sequential" THEN years_to_load(hrs_df, n, files) ELSE BatchYears

\* C5: whenever the merge of a lag was performed, every non-unknown area code
\* of that lag's resolved column belongs to the filter under which each year
\* table used by the merge was loaded.
C5_FilterCoversLag ==
    \A n \in Range(n_days) :
        Merged(n) =>
            \A y \in Range(YearsUsed(n)) :
                /\ data[y].loaded
                /\ data[y].under.active
                /\ extract_unique_geoids(prepare_lag_columns_batch(hrs_df, <<n>>, move, move_info))
                       \subseteq data[y].under.geoids

\* C6: a merge that raises never ends the run: no strategy propagates the
\* exception, and a run that returned has dropped exactly the raising lags
\* from what it would have written.
C6_MergeFailureContained ==
    /\ error # "MergeError"
    /\ Returned => \A n \in Range(n_days) : MergeRaises(LagTable, n, bad_lags) => n \notin DOMAIN temp_dir

\* no two records of the store share (date, area code)
UniqueKeys(fs) ==
    \A y \in DOMAIN fs : \A a, b \in DOMAIN fs[y] :
        (fs[y][a].date = fs[y][b].date /\ fs[y][a].geoid = fs[y][b].geoid) => a = b

StoreRecords(fs) == UNION { Range(format_cols(fs[y])) : y \in DOMAIN fs }

\* the measurement of the record of (d, g), NA when there is none
Expected(fs, d, g) ==
    LET hits == {r \in StoreRecords(fs) : r[CtxDate] = d /\ r[CtxGeoid] = g}
    IN IF hits = {} THEN NA ELSE (CHOOSE r \in hits : TRUE)[CtxData]

\* C7: with at most one record per (date, area code) in the store, the value of
\* lag n's measurement column for the k-th respondent row is the measurement of
\* the record of (reference date - n, area code resolved on that date), and null
\* when the store has no such record.
C7_LagValueIsRecord ==
    UniqueKeys(files) =>
        \A n \in Range(n_days) :
            Merged(n) =>
                /\ Len(temp_dir[n].rows) = Len(hrs_df.rows)
                /\ \A k \in DOMAIN hrs_df.rows :
                      temp_dir[n].rows[k][LagVal(n)] =
                          Expected(files, TargetDate(k, n), Resolved(k, n))

\* C8: the assembled table has exactly as many rows as the base table.
C8_RowCountPreserved ==
    pc = "done" => Len(final_df.rows) = Len(hrs_df.rows)

\* a base row whose respondent has no entry in the index, or a null id
Absent(row) == row[ID] = NA \/ row[ID] \notin DOMAIN move_info

\* the base table without the rows of absent respondents
PresentOnly(hrs) == [hrs EXCEPT !.rows = Filter(hrs.rows, [r \in Range(hrs.rows) |-> ~Absent(r)])]

\* whether the batched / parallel steps raise on base table hrs
RaisesOn(hrs) ==
    \/ RequiredYearsRaises(hrs)
    \/ years_to_load(hrs, SetMax(Range(n_days)), files) = << >>
    \/ \E n \in Range(n_days) :
           MergeRaises(prepare_lag_columns_batch(hrs, n_days, move, move_info), n, bad_lags)

\* C9: in dynamic mode a respondent without an entry in the index (or with a
\* null id) resolves to unknown at every lag, has a null area code and a null
\* measurement in every per-lag table and a null measurement in every lag
\* column of the final table; and a run that raised would have raised as well
\* without the rows of such respondents.
C9_AbsentRespondentIsNull ==
    move =>
        /\ \A k \in DOMAIN hrs_df.rows : \A n \in Range(n_days) :
               Absent(hrs_df.rows[k]) => Resolved(k, n) = None
        /\ \A r \in Range(hrs_with_lags.rows) : \A n \in Range(n_days) :
               Absent(r) => r[LagGeoid(n)] = None
        /\ \A n \in DOMAIN temp_dir : \A r \in Range(temp_dir[n].rows) :
               Absent(r) => \A c \in Range(temp_dir[n].cols) :
                               (c = LagVal(n) \/ c = LagGeoid(n)) => r[c] = NullOf(c)
        /\ pc = "done" =>
               \A r \in Range(final_df.rows) : \A n \in Range(n_days) :
                   (Absent(r) /\ LagVal(n) \in Range(final_df.cols)) => r[LagVal(n)] = NA
        /\ pc = "raised" => RaisesOn(PresentOnly(hrs_df))

\* a finished dynamic run whose final table has a measurement column, a row of
\* an absent respondent with a null in it, and a present respondent with a value
C9_Witness ==
    /\ move
    /\ pc = "done"
    /\ \E n \in Range(n_days) :
          /\ LagVal(n) \in Range(final_df.cols)
          /\ \E r \in Range(final_df.rows) : Absent(r) /\ r[LagVal(n)] = NA
          /\ \E r \in Range(final_df.rows) : ~Absent(r) /\ r[LagVal(n)] # NA

\* C10: a lag at which every respondent's area code is unknown leaves no file
\* and no column in the final table, for either setting of include_lag_date,
\* and the run does not raise for it.
C10_AllUnknownLagLeavesNothing ==
    \A n \in Range(n_days) :
        AllGeoidNA(LagTable, n) =>
            /\ Returned => n \notin DOMAIN temp_dir
            /\ pc = "done" =>
                  \A c \in Range(final_df.cols) : c \notin {LagDate(n), LagGeoid(n), LagVal(n)}

\* the k-th base row's area code in the column of the calendar year of its
\* target date at lag n, as normalized text
YearColumnValue(k, n) ==
    zfill(hrs_df.rows[k][GeoYear(year_of(TargetDate(k, n)))], GeoidWidth)

\* C11: in static mode, for every respondent row and every lag n whose target
\* date is a date of a year the table has a column for, the area code of the
\* lag-column table is the value of the column of the target date's calendar
\* year (so two lags with target dates in different years read different
\* columns).
C11_StaticUsesYearColumn ==
    (~move /\ hrs_with_lags # NoTable) =>
        \A k \in DOMAIN hrs_df.rows : \A n \in Range(n_days) :
            (TargetDate(k, n) # NaT /\ year_of(TargetDate(k, n)) \in Years) =>
                hrs_with_lags.rows[k][LagGeoid(n)] = YearColumnValue(k, n)

MaxLag == SetMax(Range(n_days))

\* C12: when the base table has a non-null reference date, the years returned
\* by compute_required_years(hrs_data, max_lag) contain the calendar year of
\* reference date - n for every row with a non-null reference date and every
\* lag 0 <= n <= max_lag, and lie between year(min reference date - max_lag)
\* and year(max reference date); the batched and parallel strategies load
\* exactly the years on disk that are among them.
C12_RequiredYearsCover ==
    ~RequiredYearsRaises(hrs_df) =>
        LET ys == compute_required_years(hrs_df, MaxLag)
        IN /\ \A k \in DOMAIN hrs_df.rows : \A n \in 0..MaxLag :
                  hrs_df.rows[k][DATECOL] # NaT =>
                      year_of(n_day_prior(hrs_df.rows[k][DATECOL], n)) \in ys
           /\ \A y \in ys :
                  /\ y >= year_of(SetMin(RefDates(hrs_df)) - MaxLag)
                  /\ y <= year_of(SetMax(RefDates(hrs_df)))
           /\ pc \in {"batch_loop", "parallel_run"} =>
                  \A y \in DOMAIN files : data[y].loaded <=> y \in ys

\* the steps 1-3 have run on a table whose largest lag reaches back into the
\* year before the earliest reference date, and that year was loaded
C12_Witness ==
    /\ pc \in {"batch_loop", "parallel_run"}
    /\ ~RequiredYearsRaises(hrs_df)
    /\ \E y \in DOMAIN files :
          /\ data[y].loaded
          /\ y < year_of(SetMin(RefDates(hrs_df)))
          /\ y \in compute_required_years(hrs_df, MaxLag)

\* rows i.. of fin list the rows j.. of base in order, each row of base once
\* or more, where row j of base was the last one listed (j = 0: none yet)
RECURSIVE OrderKept(_, _, _, _)
OrderKept(fin, base, i, j) ==
    LET same(a, b) == \A c \in Range(base.cols) : a[c] = b[c]
    IN IF i > Len(fin.rows) THEN j = Len(base.rows)
       ELSE \/ /\ j >= 1
               /\ same(fin.rows[i], base.rows[j])
               /\ OrderKept(fin, base, i + 1, j)
            \/ /\ j < Len(base.rows)
               /\ same(fin.rows[i], base.rows[j + 1])
               /\ OrderKept(fin, base, i + 1, j + 1)

\* C13: the rows of the final table, read on the columns of the base table,
\* are the rows of the base table in the base table's order (a base row that
\* the join repeats is repeated in place), whatever the number of per-lag
\* tables joined and the order in which their paths were collected; the base
\* columns come first, in the base table's order.
C13_RowOrderKept ==
    pc = "done" =>
        /\ OrderKept(final_df, hrs_df, 1, 0)
        /\ SubSeq(final_df.cols, 1, Len(hrs_df.cols)) = hrs_df.cols

\* an assembled table of two lags, collected out of lag order, over a base
\* table whose ids are not ascending
C13_Witness ==
    /\ pc = "done"
    /\ Len(temp_files) = 2
    /\ temp_files[1] > temp_files[2]
    /\ Len(hrs_df.rows) = 2
    /\ hrs_df.rows[1][ID] > hrs_df.rows[2][ID]
    /\ Len(final_df.rows) = 2
    /\ Len(final_df.cols) > Len(hrs_df.cols)

\* the effective date of the stored entry of respondent pid whose area code is g
\* (the area codes of one respondent's records are distinct in the histories)
EffDate(pid, g) ==
    move_info[pid][1][CHOOSE k \in DOMAIN move_info[pid][2] : move_info[pid][2][k] = g]

\* two lookups in a row for one indexed respondent, the second for a date on or
\* after the first's, both dates on or after the first effective date
LaterLookup ==
    /\ LookedUpIndexed
    /\ q_pid' = q_pid
    /\ q_dt' # NaT
    /\ q_dt >= move_info[q_pid][1][1]
    /\ q_dt <= q_dt'

\* C14: for an indexed respondent and two query dates d1 <= d2, both on or
\* after the first effective date, the residence returned for d2 does not have
\* an earlier effective date than the residence returned for d1.
C14_LookupMonotone ==
    [][LaterLookup => EffDate(q_pid, q_geoid) <= EffDate(q_pid, q_geoid')]_vars

\* C15: normalizing an already normalized area code changes nothing:
\* normalize(normalize(x)) = normalize(x) for every raw value x, at every place
\* that normalizes.
C15_NormalizeIdempotent ==
    [][(again' /\ ~again) => norm_geoid' = norm_geoid]_vars

\* a number that had to be padded was normalized twice
C15_Witness ==
    /\ again
    /\ raw_geoid \in RawGeoids
    /\ raw_geoid.t = "int"
    /\ Len(norm_geoid) > Len(PyStr(raw_geoid))
    /\ norm_geoid = zfill(PyStr(raw_geoid), GeoidWidth)

\* C16: every normalized area code (stored in the index, returned by the
\* lookup, produced by static resolution, held in a loaded contextual table)
\* has exactly 11 characters, whatever the raw value.
C16_WidthIsEleven ==
    site # "none" => Len(norm_geoid) = GeoidWidth

\* the number that a raw identifier denotes (NA when it denotes none)
Denoted(v) ==
    IF v.t \in {"int", "float"} THEN v.n
    ELSE IF \E p \in PIDs \cup {AbsentPid} : v.s \in {IntStr(p), IntStr(p) \o <<".", "0">>}
         THEN CHOOSE p \in PIDs \cup {AbsentPid} : v.s \in {IntStr(p), IntStr(p) \o <<".", "0">>}
         ELSE NA

\* C17: the lookup does not depend on how identifiers are represented: with
\* the identifiers of the move records and of the lookup series each written
\* as integer, float or text, the lookup returns what it returns on the file
\* with integer identifiers for the number denoted, and every key of the
\* index is an integer.
C17_IdRepresentationIrrelevant ==
    (parse_state = "parsed" /\ raw_pid # None) =>
        /\ q_geoid = geoid_based_on_date(MoveInfoOf(HistTwo), Denoted(raw_pid), q_dt)
        /\ DOMAIN move_info = DOMAIN MoveInfoOf(HistTwo)
        /\ \A k \in DOMAIN move_info : k \in Int

\* a text identifier was looked up in an index built from float identifiers
\* and a residence was found
C17_Witness ==
    /\ parse_state = "parsed"
    /\ raw_pid # None
    /\ raw_pid.t = "str"
    /\ \A k \in DOMAIN raw_df : raw_df[k].hhidpn.t = "float"
    /\ q_geoid # None

\* every respondent of the move records has a first-residence record
AllHaveFirst == \A k \in DOMAIN df : first_rows(df_person(df, df[k].hhidpn)) # << >>

\* C18: when every respondent of the move records has a first-residence
\* marker, construction completes without error and the index has exactly one
\* entry per distinct respondent id, each with a non-empty list of dates and a
\* list of area codes of the same length.
C18_ConstructionCompletes ==
    (parse_state # "new" /\ df # << >> /\ AllHaveFirst) =>
        /\ parse_state = "parsed"
        /\ ~debug_raised
        /\ DOMAIN move_info = {df[k].hhidpn : k \in DOMAIN df}
        /\ \A p \in DOMAIN move_info :
               /\ Len(move_info[p][1]) > 0
               /\ Len(move_info[p][2]) = Len(move_info[p][1])

\* the reference date of base row k less n days (null stays null)
DaysBefore(k, n) ==
    IF hrs_df.rows[k][DATECOL] = NaT THEN NaT ELSE hrs_df.rows[k][DATECOL] - n

\* C19: the target-date column of lag n holds, in every row, exactly the
\* reference date less n days, in make_n_day_prior_cols, in
\* prepare_lag_columns_batch and in every per-lag table that keeps the column.
C19_TargetDateIsRefMinusLag ==
    /\ \A n \in Range(n_days) : \A k \in DOMAIN hrs_df.rows :
           make_n_day_prior_cols(hrs_df, n).rows[k][LagDate(n)] = DaysBefore(k, n)
    /\ hrs_with_lags # NoTable =>
           \A n \in Range(n_days) : \A k \in DOMAIN hrs_df.rows :
               hrs_with_lags.rows[k][LagDate(n)] = DaysBefore(k, n)
    /\ \A n \in DOMAIN temp_dir :
           LagDate(n) \in Range(temp_dir[n].cols) =>
               \A r \in DOMAIN temp_dir[n].rows :
                   \E k \in DOMAIN hrs_df.rows :
                       /\ hrs_df.rows[k][ID] = temp_dir[n].rows[r][ID]
                       /\ temp_dir[n].rows[r][LagDate(n)] = DaysBefore(k, n)

\* the table of lag 1 was written with its date column, one day before a
\* non-null reference date
C19_Witness ==
    /\ 1 \in DOMAIN temp_dir
    /\ LagDate(1) \in Range(temp_dir[1].cols)
    /\ \E r \in DOMAIN temp_dir[1].rows : \E k \in DOMAIN hrs_df.rows :
           /\ hrs_df.rows[k][DATECOL] # NaT
           /\ temp_dir[1].rows[r][LagDate(1)] = hrs_df.rows[k][DATECOL] - 1

\* the survey table lacks the date column or the identifier column
MissingRequired == ID \notin Range(hrs_df.cols) \/ DATECOL \notin Range(hrs_df.cols)

\* C20: when a required column is missing from the survey table, the run
\* fails with an error before any lag column is computed, any year is loaded
\* or any file is written; it never completes with the lags merely dropped.
C20_MissingColumnFailsFirst ==
    MissingRequired =>
        /\ pc \notin {"returned", "done"}
        /\ hrs_with_lags = NoTable
        /\ \A y \in DOMAIN data : ~data[y].loaded
        /\ temp_dir = << >>

\* respondent p has move records but no first-residence record
Excluded(p) ==
    /\ moved_rows(df_person(df, p)) # << >>
    /\ first_rows(df_person(df, p)) = << >>

\* C25: a respondent with move records but no first-residence marker gets no
\* entry in the index; construction goes on for the other respondents without
\* raising, and every later lookup for the excluded respondent returns
\* unknown.
C25_NoFirstMarkerExcluded ==
    \A p \in PIDs :
        (parse_state # "new" /\ Excluded(p)) =>
            /\ parse_state = "parsed"
            /\ ~debug_raised
            /\ p \notin DOMAIN move_info
            /\ DOMAIN move_info = IndexedPids(df)
            /\ q_pid = p => q_geoid = None

\* C29: in dynamic mode a respondent whose reference date is null (so that
\* every target date is null) resolves to unknown for every lag: the lookup
\* returns no area code for a null query date, index entry or not.
C29_NullDateResolvesUnknown ==
    (move /\ hrs_with_lags # NoTable) =>
        \A k \in DOMAIN hrs_df.rows : \A n \in Range(n_days) :
            hrs_df.rows[k][DATECOL] = NaT =>
                /\ hrs_with_lags.rows[k][LagDate(n)] = NaT
                /\ hrs_with_lags.rows[k][LagGeoid(n)] = None

\* the lags whose tables the run wrote, in ascending order
WrittenAscending == SortedSeq(DOMAIN temp_dir)

\* the lag that a lag column (date, area code or value) belongs to
LagOfColumn(c) == IF Len(c) = 3 THEN c[2] ELSE c[3]

\* C30: the per-lag tables are joined onto the base table in ascending lag
\* order whatever order the parallel workers completed in, so the final table
\* (column order and content) is the same for every schedule of one input.
C30_FinalTableScheduleFree ==
    (pc = "done" /\ strategy = "parallel") =>
        /\ Range(temp_files) = DOMAIN temp_dir
        /\ final_df = merge_all(hrs_df, WrittenAscending, temp_dir)
        /\ \A i, j \in DOMAIN final_df.cols :
               (i < j /\ Len(final_df.cols[i]) >= 3 /\ Len(final_df.cols[j]) >= 3) =>
                   LagOfColumn(final_df.cols[i]) <= LagOfColumn(final_df.cols[j])

\* the workers were collected in descending lag order, and the run finished
C30_Witness ==
    /\ pc = "done"
    /\ strategy = "parallel"
    /\ Len(temp_files) = 2
    /\ temp_files[1] > temp_files[2]
    /\ include_lag_date

\* the orders in which the tables of the set S of lags can be joined
RECURSIVE Orders(_)
Orders(S) == IF S = {} THEN {<< >>}
             ELSE UNION { { <<n>> \o rest : rest \in Orders(S \ {n}) } : n \in S }

SameCells(a, b) ==
    /\ Range(a.cols) = Range(b.cols)
    /\ Len(a.rows) = Len(b.rows)
    /\ \A k \in DOMAIN a.rows : \A c \in Range(a.cols) : a.rows[k][c] = b.rows[k][c]

\* the new columns of the written per-lag tables are pairwise disjoint
DisjointColumns ==
    \A m, n \in DOMAIN temp_dir :
        m # n => Range(temp_dir[m].cols) \cap Range(temp_dir[n].cols) = {ID}

Copies(t, r) == Cardinality({k \in DOMAIN t.rows : t.rows[k] = r})

\* the same columns and the same rows with the same multiplicity
SameRowBag(a, b) ==
    /\ Range(a.cols) = Range(b.cols)
    /\ Len(a.rows) = Len(b.rows)
    /\ \A r \in Range(a.rows) \cup Range(b.rows) : Copies(a, r) = Copies(b, r)

\* no respondent id is on two rows of the table
UniqueIds(t) == \A i, j \in DOMAIN t.rows : i # j => t.rows[i][ID] # t.rows[j][ID]

TaskStep(i) ==
    /\ pc = "parallel_run"
    /\ futures[i].state = "pending"
    /\ futures'[i].state = "finished"

C21_WriteFailureAborts ==
    write_errors # {} =>
        /\ pc \notin {"returned", "done"}
        /\ pc = "raised" => error = "OSError"

RunEnded == pc \in {"returned", "done", "raised"}

\* the processing of lag n failed at the merge or at the write
LagFailed(n) == n \in write_errors \/ MergeRaises(LagTable, n, bad_lags)

\* C26: when the processing of lag n fails at the merge or at the write, then
\* at the end of the run no file of this run is at the scratch path of lag n
\* and the path is not in the returned list of result files.
C26_FailedLagLeavesNoFile ==
    RunEnded =>
        \A n \in Range(n_days) :
            LagFailed(n) => (n \notin DOMAIN temp_dir /\ n \notin Range(temp_files))


\* every task wrote only the file named after its own lag, and no two tasks
\* wrote the same file
OwnDistinctFiles ==
    /\ \A w \in task_writes : w[2] = <<"l", "a", "g", "_">> \o zfill(IntStr(n_days[w[1]]), 4)
    /\ \A v, w \in task_writes : v[1] # w[1] => v[2] # w[2]

\* C22: for any list of lags handed to process_multiple_lags_parallel, no two
\* worker tasks write the same scratch file: each task writes only the file
\* of its own lag, and distinct tasks have distinct paths.
C22_DistinctTaskFiles == OwnDistinctFiles

\* no lag occurs twice in the list
DistinctLags == \A i, j \in DOMAIN n_days : i # j => n_days[i] # n_days[j]

\* C22 (amended): for any list of pairwise distinct lags, in any order, each
\* task writes only the file of its own lag and distinct tasks have distinct
\* paths.
C22_DistinctLagsDistinctFiles == DistinctLags => OwnDistinctFiles

\* two tasks of a list of distinct lags, not in ascending order, each wrote
\* its file
C22_Witness ==
    /\ DistinctLags
    /\ Len(n_days) = 2
    /\ n_days[1] > n_days[2]
    /\ \E v, w \in task_writes : v[1] # w[1]

\* how often the path of lag n is in the list of result files
TimesListed(n) == Cardinality({k \in DOMAIN temp_files : temp_files[k] = n})

\* the tasks of lag n that wrote their file
Writers(n) == {i \in DOMAIN futures : n_days[i] = n /\ futures[i].wrote}

\* every task has finished and was handled, and every lag of the list is
\* accounted for: listed once per task that wrote, otherwise skipped (only
\* the id column) or dropped (the merge raised)
Accounted ==
    /\ DOMAIN futures = DOMAIN n_days
    /\ \A i \in DOMAIN futures : futures[i].state = "collected"
    /\ Len(temp_files) = Cardinality({i \in DOMAIN futures : futures[i].wrote})
    /\ \A i \in DOMAIN n_days :
           LET n == n_days[i]
           IN /\ TimesListed(n) = Cardinality(Writers(n))
              /\ futures[i].wrote => n \in DOMAIN temp_dir
              /\ ~futures[i].wrote =>
                     \/ MergeRaises(hrs_with_lags, n, bad_lags)
                     \/ SkipsWrite(output_merged_columns(hrs_with_lags, contextual_df,
                                                         n, include_lag_date))

\* C28: process_multiple_lags_parallel always terminates, returns only after
\* every submitted task has finished, and on return every lag of the list is
\* accounted for exactly once: listed, skipped or dropped; no result is lost
\* or recorded twice.
C28_ParallelTerminatesAccounted ==
    /\ [](pc = "returned" => Accounted)
    /\ (pc = "parallel") ~> (pc \in {"returned", "raised"})

\* the function returned with one lag listed and another dropped
C28_Witness ==
    /\ pc = "returned"
    /\ Len(temp_files) = 1
    /\ \E i \in DOMAIN n_days : ~futures[i].wrote /\ MergeRaises(hrs_with_lags, n_days[i], bad_lags)

\* ------------------------------------------- the store used by threads
\* DailyMeasureDataDir.__getitem__ is a check (self.data[year_key] is None)
\* followed by a load and a store into self.data, with no lock: each is one
\* step of the thread, and other threads may run between the two
NoYear == -1
ThreadIdle == [pc |-> "idle", year |-> NoYear, ret |-> NoTable, hit |-> FALSE, n |-> 0]

\* a store that never finds a year in its cache
getitem_never_cached(cache, y) == FALSE

\* self.data[year_key] is not None
getitem_cached(cache, y) == cache[y].loaded

\* the check; a cached year is returned at once
getitem_check(t, y) ==
    /\ thr[t].pc = "idle"
    /\ thr[t].n < MaxAccesses
    /\ y \in DOMAIN data
    /\ thr' = [thr EXCEPT ![t] =
                 IF getitem_cached(data, y)
                 THEN [pc |-> "idle", year |-> y, ret |-> data[y].df, hit |-> TRUE,
                       n |-> thr[t].n + 1]
                 ELSE [pc |-> "loading", year |-> y, ret |-> NoTable, hit |-> FALSE,
                       n |-> thr[t].n + 1]]
    /\ UNCHANGED <<idx_vars, run_vars, in_vars, bad_writes, write_errors, task_writes>>

\* the file is read, the table stored in self.data and returned
getitem_load(t) ==
    /\ thr[t].pc = "loading"
    /\ LET y == thr[t].year
           tbl == LoadYear(files, y, geoid_filter)
       IN /\ loads' = [loads EXCEPT ![y] = @ + 1]
          /\ data' = [data EXCEPT ![y] = [loaded |-> TRUE, df |-> tbl, under |-> geoid_filter]]
          /\ thr' = [thr EXCEPT ![t] = [@ EXCEPT !.pc = "idle", !.ret = tbl]]
    /\ UNCHANGED <<idx_vars, in_vars, bad_writes, write_errors, task_writes,
                   hrs_df, move, n_days, include_lag_date, strategy, bad_lags,
                   files, geoid_filter, hrs_with_lags, contextual_df, futures,
                   temp_dir, temp_files, pc, error, lag_ix, final_df>>

\* the area codes of a store's files, as format_cols writes them
FileGeoids(fs) ==
    UNION { { zfill(PyStr(fs[y][k].geoid), GeoidWidth) : k \in DOMAIN fs[y] } : y \in DOMAIN fs }

PoolInit ==
    /\ InIdle
    /\ IdxIdle
    /\ bad_writes = {}
    /\ write_errors = {}
    /\ task_writes = {}
    /\ thr \in { [t \in 1..k |-> ThreadIdle] : k \in 1..MaxThreads }
    /\ hrs_df = NoTable
    /\ move = FALSE
    /\ n_days = << >>
    /\ include_lag_date = FALSE
    /\ strategy = "none"
    /\ bad_lags = {}
    /\ files \in Stores
    /\ geoid_filter \in {NoFilter} \cup {[active |-> TRUE, geoids |-> {g}] : g \in FileGeoids(files)}
    /\ data = [y \in DOMAIN files |-> [loaded |-> FALSE, df |-> NoTable, under |-> NoFilter]]
    /\ loads = [y \in DOMAIN files |-> 0]
    /\ hrs_with_lags = NoTable
    /\ contextual_df = NoTable
    /\ futures = << >>
    /\ temp_dir = << >>
    /\ temp_files = << >>
    /\ pc = "idle"
    /\ error = "none"
    /\ lag_ix = 0
    /\ final_df = NoTable

PoolNext ==
    \/ \E t \in DOMAIN thr : \E y \in Years : getitem_check(t, y)
    \/ \E t \in DOMAIN thr : getitem_load(t)

SpecPool == PoolInit /\ [][PoolNext]_vars

\* every finished access returned the table that is in the cache
ReturnsCached ==
    \A t \in DOMAIN thr :
        (thr[t].pc = "idle" /\ thr[t].year # NoYear) =>
            /\ data[thr[t].year].loaded
            /\ thr[t].ret = data[thr[t].year].df

====
